---- MODULE Spec2Model ----
(***************************************************************************)
(* Spotlight2: the recording store (utils/recordingUtils), the analysis    *)
(* orchestration requestAIAnalysis (app/index.tsx), the guided-analysis    *)
(* screen's status polling, and the Gemini readiness poller.               *)
(*                                                                         *)
(* Every store operation is "await getRecordingMetadata(); map; await      *)
(* AsyncStorage.setItem(...)": its read and its write are separate steps   *)
(* and other tasks may run between them.                                   *)
(***************************************************************************)
EXTENDS Integers, Sequences, FiniteSets, TLC

\* ------------------------------------------------------------------ bounds
MaxRecordings == 1      \* recordings the user captures
MaxFaults     == 2      \* AsyncStorage calls that reject
MaxRetries    == 1      \* times the user presses "Try Again"
MaxInflight   == 1      \* refreshRecording calls awaiting their storage read
MaxWaitBound  == 24     \* largest maxWaitSec tried besides the default
MaxStoreIds   == 2      \* recording ids used by store calls made one after another
MaxStored     == 2      \* entries saveRecordingMetadata is let to reach there
MaxCalls      == 5      \* store calls made one after another

Ids == 1..MaxRecordings

NoSnap == <<>>

VARIABLES
  storage,        \* AsyncStorage[RECORDINGS_STORAGE_KEY], parsed: Seq of RecordingMetadata
  faults,         \* storage calls that have rejected so far
  svPc, svSnap,   \* saveVideo -> saveRecordingMetadata: position, existingRecordings
  pc,             \* requestAIAnalysis(r): position, per recording id
  snap,           \* existingRecordings of the store call the pipeline is inside
  tried,          \* analysis paths entered in the current attempt, in order
  failedPaths,    \* analysis paths that threw in the current attempt
  result,         \* analysisResult of the current attempt (which path produced it)
  retries,        \* "Try Again" presses so far
  mounted,        \* a GuidedAnalysisScreen is mounted
  screenRec,      \* its recordingId param (0 before the first navigation)
  loadPc,         \* loadRecording: "none", "read", "apply", "done"
  loadSeen,       \* recordings, as loadRecording's getRecordingMetadata returned them
  analysisStatus, \* useState analysisStatus
  recording,      \* useState recording: <<>> for null, else <<RecordingMetadata>>
  refreshIntervalRef, \* 0 for null, else the period (ms) of the live setInterval
  closure,        \* analysisStatus / recording.aiAnalysis as the render that made the interval saw them
  refreshQ,       \* refreshRecording calls in flight, oldest first
  obsPc, obsSnap, obsNav, \* handleComplete -> updateRecordingObservations
  stale,          \* per task: the collection was rewritten since this task's read
  staleWrite,     \* history: some task wrote back a snapshot that was stale
  saveThrew,      \* history: saveAnalysisToRecording threw in the current attempt
  observedTerminal, \* history: a refresh of the mounted screen saw 'completed' or 'failed'
  pollPc,         \* pollUntilActive: "idle", "query", "wait", "done"
  maxWaitSec, delay, waited,   \* its parameter and locals
  pollResult,     \* "none", "returned", "processing_failed", "timeout", "query_error"
  returnedUri,    \* the value it returned
  reported,       \* history: state and uri in the body of the last state query
  queries,        \* history: state queries made
  gPc,            \* analyzeVideoWithGemini (wrapper): "idle", "upload", "poll", "generate", "convert", "done"
  uploadResp,     \* history: the upload response, <<>> before it arrived
  fileName,       \* what uploadVideoToGemini returned ("none" before, "undefined" possible)
  genRequests,    \* history: generation requests sent
  genResp,        \* history: the generation response, <<>> before it arrived
  geminiResult,   \* the parsed GeminiAnalysisResult, <<>> if none
  gOutcome,       \* "none", "result", "error"
  gError,         \* the stage that threw: "none", "config", "upload", "poll", "generate", "convert"
  speechAnalysis, \* the converted analysis the wrapper returned, <<>> if none
  gRecordingId,   \* the recordingId the wrapper was called with ("none" before)
  bPc,            \* uploadVideoForAnalysis: "idle", "sent", "done"
  bMode,          \* its mode argument
  bResp,          \* history: how its fetch settled, <<>> before
  bOut,           \* what it returned or threw, <<>> before
  vapi,           \* VapiService.vapi is not null
  currentSession, \* VapiService.currentSession: <<>> for null, else <<session>>
  vPc,            \* VapiService call in progress: "idle", "starting", "stopping", "saving"
  callLive,       \* a call started by vapi.start is live
  lastOp,         \* history: how the last VapiService call ended
  sessions,       \* history: startCoachingSession calls that created a session
  vArg,           \* the exerciseId of the start in progress ("none" without one)
  lastCall,       \* history: the store call made last, one after another
  nCalls          \* history: store calls made one after another

storeVars == <<storage, faults>>
svVars    == <<svPc, svSnap>>
pipeVars  == <<pc, snap, tried, failedPaths, result, retries, saveThrew>>
histVars  == <<stale, staleWrite>>
uiVars    == <<mounted, screenRec, loadPc, loadSeen, analysisStatus, recording,
               refreshIntervalRef, closure, refreshQ, observedTerminal>>
pollVars  == <<pollPc, maxWaitSec, delay, waited, pollResult, returnedUri,
               reported, queries>>
obsVars   == <<obsPc, obsSnap, obsNav>>
gemVars   == <<gPc, uploadResp, fileName, genRequests, genResp, geminiResult,
               gOutcome, gError, speechAnalysis, gRecordingId>>
seqVars   == <<lastCall, nCalls>>
backVars  == <<bPc, bMode, bResp, bOut>>
vapiVars  == <<vapi, currentSession, vPc, callLive, lastOp, sessions, vArg>>
auxVars   == <<backVars, vapiVars>>
sideVars  == <<gemVars, seqVars, auxVars>>

\* --------------------------------------------------------------- the store
Statuses == {"not_requested", "pending", "completed", "failed"}

\* metadata built by saveVideo: analysisStatus 'not_requested', no aiAnalysis
NewMetadata(recordingId) ==
  [id |-> recordingId, analysisStatus |-> "not_requested", aiAnalysis |-> "none",
   analysisMode |-> "none", observations |-> ""]

\* getRecordingMetadata: the parsed collection, [] when nothing is stored or
\* when getItem rejects (the catch returns [])
getRecordingMetadata(readOk) == IF readOk THEN storage ELSE <<>>

\* saveRecordingMetadata: [...existingRecordings, metadata]
saveRecordingMetadata(existingRecordings, metadata) ==
  Append(existingRecordings, metadata)

\* an updateRecordingAnalysisStatus that adds an entry carrying the status
updateRecordingAnalysisStatus_Appends(existingRecordings, recordingId, status, mode) ==
  Append(existingRecordings,
         [NewMetadata(recordingId) EXCEPT !.analysisStatus = status])

\* an updateRecordingAnalysisStatus that rebuilds the entry it updates
updateRecordingAnalysisStatus_Rebuilds(existingRecordings, recordingId, status, mode) ==
  [i \in DOMAIN existingRecordings |->
     IF existingRecordings[i].id = recordingId
       THEN [NewMetadata(recordingId) EXCEPT
               !.analysisStatus = status,
               !.analysisMode = mode]
       ELSE existingRecordings[i]]

\* updateRecordingAnalysisStatus: the map over existingRecordings
updateRecordingAnalysisStatus(existingRecordings, recordingId, status, mode) ==
  [i \in DOMAIN existingRecordings |->
     IF existingRecordings[i].id = recordingId
       THEN [existingRecordings[i] EXCEPT
               !.analysisStatus = status,
               !.analysisMode = IF mode # "none" THEN mode ELSE @]
       ELSE existingRecordings[i]]

\* a saveAnalysisToRecording that attaches the result and forgets the status
saveAnalysisToRecording_KeepsStatus(existingRecordings, recordingId, analysis) ==
  [i \in DOMAIN existingRecordings |->
     IF existingRecordings[i].id = recordingId
       THEN [existingRecordings[i] EXCEPT !.aiAnalysis = analysis]
       ELSE existingRecordings[i]]

\* saveAnalysisToRecording: the map over existingRecordings
saveAnalysisToRecording(existingRecordings, recordingId, analysis) ==
  [i \in DOMAIN existingRecordings |->
     IF existingRecordings[i].id = recordingId
       THEN [existingRecordings[i] EXCEPT
               !.aiAnalysis = analysis,
               !.analysisStatus = "completed"]
       ELSE existingRecordings[i]]

\* an updateRecordingObservations that rebuilds the entry instead of spreading it
updateRecordingObservations_Rebuilds(existingRecordings, recordingId, observations) ==
  [i \in DOMAIN existingRecordings |->
     IF existingRecordings[i].id = recordingId
       THEN [NewMetadata(recordingId) EXCEPT !.observations = observations]
       ELSE existingRecordings[i]]

\* updateRecordingObservations: the map over existingRecordings
updateRecordingObservations(existingRecordings, recordingId, observations) ==
  [i \in DOMAIN existingRecordings |->
     IF existingRecordings[i].id = recordingId
       THEN [existingRecordings[i] EXCEPT !.observations = observations]
       ELSE existingRecordings[i]]

\* deleteRecordingMetadata: the filter over existingRecordings
deleteRecordingMetadata(existingRecordings, recordingId) ==
  SelectSeq(existingRecordings, LAMBDA rec : rec.id # recordingId)

\* recordings.find(r => r.id === recordingId): index of the first match, 0 if none
FindIndex(recordings, recordingId) ==
  IF \E i \in DOMAIN recordings : recordings[i].id = recordingId
    THEN CHOOSE i \in DOMAIN recordings :
           /\ recordings[i].id = recordingId
           /\ \A j \in DOMAIN recordings : recordings[j].id = recordingId => i <= j
    ELSE 0

InStore(recordingId) == FindIndex(storage, recordingId) # 0
Stored(recordingId)  == storage[FindIndex(storage, recordingId)]

\* targetRecording.analysisStatus || 'not_requested', or "missing"
StatusIn(recordings, recordingId) ==
  IF FindIndex(recordings, recordingId) = 0 THEN "missing"
  ELSE recordings[FindIndex(recordings, recordingId)].analysisStatus

\* ----------------------------------------------- tasks and stale snapshots
\* A task is the pipeline of a recording (its id), saveVideo or handleComplete.
SvTask  == MaxRecordings + 1
ObsTask == MaxRecordings + 2
Tasks == Ids \cup {SvTask, ObsTask}

\* After task t rewrote the collection, every other task that holds a
\* snapshot holds a stale one.
Holding(t) ==
  IF t = SvTask THEN svPc = "write"
  ELSE IF t = ObsTask THEN obsPc = "write"
  ELSE pc[t] \in {"pend_write", "save_write", "fail_write"}

MarkStale(t, changed) ==
  [u \in Tasks |-> IF u = t THEN FALSE
                   ELSE stale[u] \/ (changed /\ Holding(u))]

\* AsyncStorage.setItem(KEY, JSON.stringify(updatedRecordings)) by task t
SetItem(t, updatedRecordings) ==
  /\ storage' = updatedRecordings
  /\ staleWrite' = (staleWrite \/ stale[t])
  /\ stale' = MarkStale(t, updatedRecordings # storage)
  /\ UNCHANGED faults

\* setItem rejects: nothing is written
SetItemRejects(t) ==
  /\ faults < MaxFaults
  /\ faults' = faults + 1
  /\ stale' = [stale EXCEPT ![t] = FALSE]
  /\ UNCHANGED <<storage, staleWrite>>

\* the getItem inside getRecordingMetadata, by task t: resolves or rejects
GetItem(t, readOk) ==
  /\ readOk \/ faults < MaxFaults
  /\ faults' = IF readOk THEN faults ELSE faults + 1
  /\ stale' = [stale EXCEPT ![t] = FALSE]
  /\ UNCHANGED <<storage, staleWrite>>

\* ------------------------------------------- GuidedAnalysisScreen (state)
PollIntervalMs == 2000

Terminal == {"completed", "failed"}

HasAi(rec) == rec # <<>> /\ rec[1].aiAnalysis # "none"

\* the screen reads through getRecordingMetadata too; it writes nothing
ScreenGetItem(readOk) ==
  /\ readOk \/ faults < MaxFaults
  /\ faults' = IF readOk THEN faults ELSE faults + 1
  /\ UNCHANGED <<storage, stale, staleWrite>>

\* setAnalysisStatus(newStatus) followed by React's re-render: when the state
\* changes, the polling effect's cleanup clears the interval and nulls the
\* ref, then the effect body starts a new interval iff the new status is
\* 'pending'.  After unmount a state setter does nothing.  ref1 is the ref
\* as the calling handler left it, rec1 the recording state it set.
setAnalysisStatus(newStatus, ref1, rec1) ==
  IF mounted /\ newStatus # analysisStatus
    THEN /\ analysisStatus' = newStatus
         /\ IF newStatus = "pending"
              THEN /\ refreshIntervalRef' = PollIntervalMs
                   /\ closure' = [analysisStatus |-> newStatus, recordingAi |-> HasAi(rec1)]
              ELSE /\ refreshIntervalRef' = 0
                   /\ UNCHANGED closure
    ELSE /\ refreshIntervalRef' = ref1
         /\ UNCHANGED <<analysisStatus, closure>>

\* first render of the screen for recordingId r: analysisStatus 'pending',
\* loading, recording null; the effects run loadRecording() and, the status
\* being 'pending', setInterval(refreshRecording, 2000)
Mount(r) ==
  /\ mounted' = TRUE
  /\ screenRec' = r
  /\ loadPc' = "read"
  /\ loadSeen' = NoSnap
  /\ analysisStatus' = "pending"
  /\ recording' = <<>>
  /\ refreshIntervalRef' = PollIntervalMs
  /\ closure' = [analysisStatus |-> "pending", recordingAi |-> FALSE]
  /\ refreshQ' = <<>>
  /\ observedTerminal' = FALSE

\* the user can reach the camera again only after leaving the screen
ScreenIdle ==
  /\ ~mounted
  /\ loadPc \in {"none", "done"}
  /\ refreshQ = <<>>
  /\ obsPc = "idle"

\* ------------------------------------------------------------- saveVideo
\* saveVideo (index.tsx 440-525) for the next recording id: the read inside
\* saveRecordingMetadata
SaveVideoRead(r) ==
  /\ svPc = "idle"
  /\ pc[r] = "none"
  /\ ScreenIdle
  /\ \A q \in Ids : q < r => pc[q] # "none"
  /\ \E readOk \in BOOLEAN :
       /\ GetItem(SvTask, readOk)
       /\ svSnap' = getRecordingMetadata(readOk)
  /\ svPc' = "write"
  /\ pc' = [pc EXCEPT ![r] = "creating"]
  /\ UNCHANGED <<snap, tried, failedPaths, result, retries, saveThrew, uiVars, obsVars, pollVars, sideVars>>

\* ... its write (an error is logged and swallowed), then router.replace to
\* the guided-analysis screen and requestAIAnalysis(recordingId, ...) starts
SaveVideoWrite(r) ==
  /\ svPc = "write"
  /\ pc[r] = "creating"
  /\ \/ SetItem(SvTask, saveRecordingMetadata(svSnap, NewMetadata(r)))
     \/ SetItemRejects(SvTask)
  /\ svPc' = "idle"
  /\ svSnap' = NoSnap
  /\ pc' = [pc EXCEPT ![r] = "pend_read"]
  /\ Mount(r)
  /\ UNCHANGED <<snap, tried, failedPaths, result, retries, saveThrew, obsVars, pollVars, sideVars>>

\* ------------------------------------------------------ requestAIAnalysis
Paths == <<"gemini", "backend", "mock">>

\* line 248: updateRecordingAnalysisStatus(recordingId, 'pending', mode), read
PendRead(r) ==
  /\ pc[r] = "pend_read"
  /\ \E readOk \in BOOLEAN :
       /\ GetItem(r, readOk)
       /\ snap' = [snap EXCEPT ![r] = getRecordingMetadata(readOk)]
  /\ pc' = [pc EXCEPT ![r] = "pend_write"]
  /\ UNCHANGED <<tried, failedPaths, result, retries, saveThrew, svVars, uiVars, obsVars, pollVars, sideVars>>

\* ... its write; a rejected write is logged and swallowed.  Then line 262
\* enters the Gemini path.
PendWrite(r) ==
  /\ pc[r] = "pend_write"
  /\ \/ SetItem(r, updateRecordingAnalysisStatus(snap[r], r, "pending", "general"))
     \/ SetItemRejects(r)
  /\ pc' = [pc EXCEPT ![r] = "g_upload"]
  /\ snap' = [snap EXCEPT ![r] = NoSnap]
  /\ tried' = [tried EXCEPT ![r] = <<"gemini">>]
  /\ UNCHANGED <<failedPaths, result, retries, saveThrew, svVars, uiVars, obsVars, pollVars, sideVars>>

\* a catch (geminiError) that goes straight to the mock
GeminiThrows_SkipsBackend(r) ==
  /\ pc' = [pc EXCEPT ![r] = "mock"]
  /\ failedPaths' = [failedPaths EXCEPT ![r] = @ \cup {"gemini"}]
  /\ tried' = [tried EXCEPT ![r] = Append(@, "mock")]
  /\ UNCHANGED <<result>>

\* catch (geminiError): line 269 enters the backend path
GeminiThrows(r) ==
  /\ pc' = [pc EXCEPT ![r] = "backend"]
  /\ failedPaths' = [failedPaths EXCEPT ![r] = @ \cup {"gemini"}]
  /\ tried' = [tried EXCEPT ![r] = Append(@, "backend")]
  /\ UNCHANGED <<result>>

\* analyzeVideoWithGeminiAPI step 1: the API-key check and uploadVideoToGemini
GeminiUpload(r) ==
  /\ pc[r] = "g_upload"
  /\ \/ /\ pc' = [pc EXCEPT ![r] = "g_poll"]
        /\ UNCHANGED <<tried, failedPaths, result>>
     \/ GeminiThrows(r)
  /\ UNCHANGED <<snap, retries, saveThrew, svVars, storeVars, histVars, uiVars, obsVars, pollVars, sideVars>>

\* step 2: pollUntilActive returns the uri, or throws
GeminiPoll(r) ==
  /\ pc[r] = "g_poll"
  /\ \/ /\ pc' = [pc EXCEPT ![r] = "g_generate"]
        /\ UNCHANGED <<tried, failedPaths, result>>
     \/ GeminiThrows(r)
  /\ UNCHANGED <<snap, retries, saveThrew, svVars, storeVars, histVars, uiVars, obsVars, pollVars, sideVars>>

\* step 3: the generation request; then convertGeminiToSpeechAnalysis
GeminiGenerate(r) ==
  /\ pc[r] = "g_generate"
  /\ \/ /\ pc' = [pc EXCEPT ![r] = "save_read"]
        /\ result' = [result EXCEPT ![r] = "gemini"]
        /\ UNCHANGED <<tried, failedPaths>>
     \/ GeminiThrows(r)
  /\ UNCHANGED <<snap, retries, saveThrew, svVars, storeVars, histVars, uiVars, obsVars, pollVars, sideVars>>

\* line 269: uploadVideoForAnalysis returns, or throws and line 274 enters
\* the mock
Backend(r) ==
  /\ pc[r] = "backend"
  /\ \/ /\ pc' = [pc EXCEPT ![r] = "save_read"]
        /\ result' = [result EXCEPT ![r] = "backend"]
        /\ UNCHANGED <<tried, failedPaths>>
     \/ /\ pc' = [pc EXCEPT ![r] = "mock"]
        /\ failedPaths' = [failedPaths EXCEPT ![r] = @ \cup {"backend"}]
        /\ tried' = [tried EXCEPT ![r] = Append(@, "mock")]
        /\ UNCHANGED result
  /\ UNCHANGED <<snap, retries, saveThrew, svVars, storeVars, histVars, uiVars, obsVars, pollVars, sideVars>>

\* a mockAnalyzeSpeechVideo that can throw into the outer catch
mockAnalyzeSpeechVideo_Throws(r) ==
  /\ pc[r] = "mock"
  /\ \/ /\ pc' = [pc EXCEPT ![r] = "save_read"]
        /\ result' = [result EXCEPT ![r] = "mock"]
        /\ UNCHANGED failedPaths
     \/ /\ pc' = [pc EXCEPT ![r] = "fail_read"]
        /\ failedPaths' = [failedPaths EXCEPT ![r] = @ \cup {"mock"}]
        /\ UNCHANGED result
  /\ UNCHANGED <<tried, snap, retries, saveThrew, svVars, storeVars, histVars, uiVars, obsVars, pollVars, sideVars>>

\* mockAnalyzeSpeechVideo: a 2 s timer, then a fixed result; it has no throw
mockAnalyzeSpeechVideo(r) ==
  /\ pc[r] = "mock"
  /\ pc' = [pc EXCEPT ![r] = "save_read"]
  /\ result' = [result EXCEPT ![r] = "mock"]
  /\ UNCHANGED <<tried, failedPaths, snap, retries, saveThrew, svVars, storeVars, histVars, uiVars, obsVars, pollVars, sideVars>>

\* line 279: saveAnalysisToRecording(recordingId, analysisResult), read
SaveRead(r) ==
  /\ pc[r] = "save_read"
  /\ \E readOk \in BOOLEAN :
       /\ GetItem(r, readOk)
       /\ snap' = [snap EXCEPT ![r] = getRecordingMetadata(readOk)]
  /\ pc' = [pc EXCEPT ![r] = "save_write"]
  /\ UNCHANGED <<tried, failedPaths, result, retries, saveThrew, svVars, uiVars, obsVars, pollVars, sideVars>>

\* ... its write; a rejected write is rethrown and lands in the outer catch
SaveWrite(r) ==
  /\ pc[r] = "save_write"
  /\ \/ /\ SetItem(r, saveAnalysisToRecording(snap[r], r, result[r]))
        /\ pc' = [pc EXCEPT ![r] = "done"]
        /\ UNCHANGED saveThrew
     \/ /\ SetItemRejects(r)
        /\ pc' = [pc EXCEPT ![r] = "fail_read"]
        /\ saveThrew' = [saveThrew EXCEPT ![r] = TRUE]
  /\ snap' = [snap EXCEPT ![r] = NoSnap]
  /\ UNCHANGED <<tried, failedPaths, result, retries, svVars, uiVars, obsVars, pollVars, sideVars>>

\* line 290: updateRecordingAnalysisStatus(recordingId, 'failed'), read
FailRead(r) ==
  /\ pc[r] = "fail_read"
  /\ \E readOk \in BOOLEAN :
       /\ GetItem(r, readOk)
       /\ snap' = [snap EXCEPT ![r] = getRecordingMetadata(readOk)]
  /\ pc' = [pc EXCEPT ![r] = "fail_write"]
  /\ UNCHANGED <<tried, failedPaths, result, retries, saveThrew, svVars, uiVars, obsVars, pollVars, sideVars>>

\* ... its write (swallowed when rejected), then the 'Analysis Failed' alert
FailWrite(r) ==
  /\ pc[r] = "fail_write"
  /\ \/ SetItem(r, updateRecordingAnalysisStatus(snap[r], r, "failed", "none"))
     \/ SetItemRejects(r)
  /\ pc' = [pc EXCEPT ![r] = "alert"]
  /\ snap' = [snap EXCEPT ![r] = NoSnap]
  /\ UNCHANGED <<tried, failedPaths, result, retries, saveThrew, svVars, uiVars, obsVars, pollVars, sideVars>>

\* 'Try Again': requestAIAnalysis(recordingId, videoUri, mode) again
TryAgain(r) ==
  /\ pc[r] = "alert"
  /\ retries < MaxRetries
  /\ retries' = retries + 1
  /\ pc' = [pc EXCEPT ![r] = "pend_read"]
  /\ tried' = [tried EXCEPT ![r] = <<>>]
  /\ failedPaths' = [failedPaths EXCEPT ![r] = {}]
  /\ result' = [result EXCEPT ![r] = "none"]
  /\ saveThrew' = [saveThrew EXCEPT ![r] = FALSE]
  /\ UNCHANGED <<snap, svVars, storeVars, histVars, uiVars, obsVars, pollVars, sideVars>>

\* 'Skip Analysis': style cancel, no handler
SkipAnalysis(r) ==
  /\ pc[r] = "alert"
  /\ pc' = [pc EXCEPT ![r] = "skipped"]
  /\ UNCHANGED <<snap, tried, failedPaths, result, retries, saveThrew, svVars, storeVars, histVars, uiVars, obsVars, pollVars, sideVars>>

\* ------------------------------------------ GuidedAnalysisScreen (steps)
\* AsyncStorage serves its calls in the order they were issued: the screen's
\* reads resolve in issue order, loadRecording's (issued at mount) first.

\* loadRecording: getRecordingMetadata resolves
LoadRead ==
  /\ loadPc = "read"
  /\ \E readOk \in BOOLEAN :
       /\ ScreenGetItem(readOk)
       /\ loadSeen' = getRecordingMetadata(readOk)
  /\ loadPc' = "apply"
  /\ UNCHANGED <<mounted, screenRec, analysisStatus, recording, refreshIntervalRef,
                 closure, refreshQ, observedTerminal, svVars, pipeVars, obsVars,
                 pollVars, sideVars>>

\* loadRecording after the await: setRecording, setAnalysisStatus(initialStatus)
\* when the recording is found; setLoading(false)
LoadApply ==
  /\ loadPc = "apply"
  /\ LET i == FindIndex(loadSeen, screenRec)
         rec1 == IF i # 0 /\ mounted THEN <<loadSeen[i]>> ELSE recording
     IN /\ recording' = rec1
        /\ IF i # 0
             THEN setAnalysisStatus(loadSeen[i].analysisStatus, refreshIntervalRef, rec1)
             ELSE UNCHANGED <<analysisStatus, refreshIntervalRef, closure>>
  /\ loadPc' = "done"
  /\ loadSeen' = NoSnap
  /\ UNCHANGED <<mounted, screenRec, refreshQ, observedTerminal, svVars, pipeVars,
                 obsVars, storeVars, histVars, pollVars, sideVars>>

\* the interval fires: refreshRecording() starts and awaits getRecordingMetadata
Tick ==
  /\ mounted
  /\ refreshIntervalRef # 0
  /\ Len(refreshQ) < MaxInflight
  /\ refreshQ' = Append(refreshQ, [st |-> "read", recordings |-> NoSnap,
                                   analysisStatus |-> closure.analysisStatus,
                                   recordingAi |-> closure.recordingAi])
  /\ UNCHANGED <<mounted, screenRec, loadPc, loadSeen, analysisStatus, recording,
                 refreshIntervalRef, closure, observedTerminal, svVars, pipeVars,
                 obsVars, storeVars, histVars, pollVars, sideVars>>

\* the oldest unserved refresh read resolves
RefreshRead ==
  /\ loadPc \in {"apply", "done"}
  /\ \E i \in DOMAIN refreshQ :
       /\ refreshQ[i].st = "read"
       /\ \A j \in DOMAIN refreshQ : j < i => refreshQ[j].st # "read"
       /\ \E readOk \in BOOLEAN :
            /\ ScreenGetItem(readOk)
            /\ refreshQ' = [refreshQ EXCEPT ![i] =
                              [@ EXCEPT !.st = "apply",
                                        !.recordings = getRecordingMetadata(readOk)]]
  /\ UNCHANGED <<mounted, screenRec, loadPc, loadSeen, analysisStatus, recording,
                 refreshIntervalRef, closure, observedTerminal, svVars, pipeVars,
                 obsVars, pollVars, sideVars>>

\* refreshRecording after the await (lines 197-222), with the analysisStatus
\* and recording its closure captured
RefreshApply ==
  /\ loadPc = "done"
  /\ refreshQ # <<>>
  /\ Head(refreshQ).st = "apply"
  /\ LET call == Head(refreshQ)
         i == FindIndex(call.recordings, screenRec)
     IN IF i = 0
          THEN UNCHANGED <<analysisStatus, recording, refreshIntervalRef, closure,
                           observedTerminal>>
          ELSE LET newStatus == call.recordings[i].analysisStatus
                   rec1 == IF mounted /\ call.recordings[i].aiAnalysis # "none"
                              /\ ~call.recordingAi
                             THEN <<call.recordings[i]>> ELSE recording
                   ref1 == IF newStatus \in Terminal THEN 0 ELSE refreshIntervalRef
               IN /\ recording' = rec1
                  /\ observedTerminal' = (observedTerminal
                                            \/ (mounted /\ newStatus \in Terminal))
                  /\ IF newStatus # call.analysisStatus
                       THEN setAnalysisStatus(newStatus, ref1, rec1)
                       ELSE /\ refreshIntervalRef' = ref1
                            /\ UNCHANGED <<analysisStatus, closure>>
  /\ refreshQ' = Tail(refreshQ)
  /\ UNCHANGED <<mounted, screenRec, loadPc, loadSeen, svVars, pipeVars, obsVars,
                 storeVars, histVars, pollVars, sideVars>>

\* an unmount whose cleanups leave the interval running
Unmount_KeepsInterval ==
  /\ mounted
  /\ mounted' = FALSE
  /\ UNCHANGED <<screenRec, loadPc, loadSeen, analysisStatus, recording, closure,
                 refreshIntervalRef, refreshQ, observedTerminal, svVars, pipeVars,
                 obsVars, storeVars, histVars, pollVars, sideVars>>

\* the screen unmounts (back, or handleComplete with empty notes replacing the
\* route): both cleanup effects clear the interval
Unmount ==
  /\ mounted
  /\ mounted' = FALSE
  /\ refreshIntervalRef' = 0
  /\ UNCHANGED <<screenRec, loadPc, loadSeen, analysisStatus, recording, closure,
                 refreshQ, observedTerminal, svVars, pipeVars, obsVars, storeVars,
                 histVars, pollVars, sideVars>>

\* handleComplete with notes typed: updateRecordingObservations, read.  The
\* route taken after the await is decided by the recording and analysisStatus
\* of the render whose button was pressed.
HandleCompleteRead ==
  /\ mounted
  /\ loadPc = "done"
  /\ recording # <<>>
  /\ obsPc = "idle"
  /\ \E readOk \in BOOLEAN :
       /\ GetItem(ObsTask, readOk)
       /\ obsSnap' = getRecordingMetadata(readOk)
  /\ obsPc' = "write"
  /\ obsNav' = IF HasAi(recording) /\ analysisStatus = "completed"
                 THEN "push" ELSE "replace"
  /\ UNCHANGED <<uiVars, svVars, pipeVars, pollVars, sideVars>>

\* ... its write (swallowed when rejected); then router.push('/ai-analysis')
\* keeps the screen mounted and router.replace('/dashboard') unmounts it
HandleCompleteWrite ==
  /\ obsPc = "write"
  /\ \/ SetItem(ObsTask, updateRecordingObservations(obsSnap, recording[1].id, "notes"))
     \/ SetItemRejects(ObsTask)
  /\ obsPc' = "idle"
  /\ obsSnap' = NoSnap
  /\ obsNav' = "none"
  /\ mounted' = (mounted /\ obsNav = "push")
  /\ refreshIntervalRef' = IF obsNav = "push" THEN refreshIntervalRef ELSE 0
  /\ UNCHANGED <<screenRec, loadPc, loadSeen, analysisStatus, recording, closure,
                 refreshQ, observedTerminal, svVars, pipeVars, pollVars, sideVars>>

\* clearAllRecordingMetadata: AsyncStorage.removeItem(KEY)
clearAllRecordingMetadata ==
  /\ storage # <<>>
  /\ storage' = <<>>
  /\ stale' = [u \in Tasks |-> stale[u] \/ Holding(u)]
  /\ UNCHANGED <<faults, staleWrite, svVars, pipeVars, uiVars, obsVars, pollVars, sideVars>>

\* --------------------------------------------------------- pollUntilActive
InitialDelaySec   == 2
MaxDelaySec       == 10
DefaultMaxWaitSec == 180

RemoteStates == {"ACTIVE", "FAILED", "PROCESSING", "STATE_UNSPECIFIED", "missing"}
Uris == {"https://x/abc", "missing"}

\* the body of a state-check response: the file object, flat or under `file`
FileJson(nested, state, uri) ==
  IF nested
    THEN [hasFile |-> TRUE, file |-> [state |-> state, uri |-> uri],
          state |-> "missing", uri |-> "missing"]
    ELSE [hasFile |-> FALSE, file |-> [state |-> "missing", uri |-> "missing"],
          state |-> state, uri |-> uri]

\* an extractStateAndUri that reads the flat shape only
extractStateAndUri_FlatOnly(fileJson) ==
  [state |-> fileJson.state, uri |-> fileJson.uri]

\* extractStateAndUri: fobj = fileJson.file || fileJson
extractStateAndUri(fileJson) ==
  LET fobj == IF fileJson.hasFile THEN fileJson.file
              ELSE [state |-> fileJson.state, uri |-> fileJson.uri]
  IN [state |-> fobj.state, uri |-> fobj.uri]

\* a timeout test that lets the wait reach maxWaitSec
TimedOut_Strict(waitedNow, maxWait) == waitedNow > maxWait

\* line 152: waited >= maxWaitSec
TimedOut(waitedNow, maxWait) == waitedNow >= maxWait

\* a backoff without the cap
NextDelay_Uncapped(d) == d * 2

\* line 156: Math.min(delay * 2, 10)
NextDelay(d) == IF d * 2 < MaxDelaySec THEN d * 2 ELSE MaxDelaySec

\* pollUntilActive(fileName, maxWaitSec = 180) is entered
PollStart(m) ==
  /\ pollPc = "idle"
  /\ pollPc' = "query"
  /\ maxWaitSec' = m
  /\ delay' = InitialDelaySec
  /\ waited' = 0
  /\ UNCHANGED <<pollResult, returnedUri, reported, queries>>

\* lines 135-147: getFileJson resolves; ACTIVE returns the uri, FAILED
\* throws, anything else goes on to the setTimeout
PollQuery ==
  /\ pollPc = "query"
  /\ \E nested \in BOOLEAN, st \in RemoteStates, u \in Uris :
       LET got == extractStateAndUri(FileJson(nested, st, u))
       IN /\ reported' = [state |-> st, uri |-> u]
          /\ IF got.state = "ACTIVE"
               THEN /\ pollPc' = "done"
                    /\ pollResult' = "returned"
                    /\ returnedUri' = got.uri
               ELSE IF got.state = "FAILED"
                 THEN /\ pollPc' = "done"
                      /\ pollResult' = "processing_failed"
                      /\ UNCHANGED returnedUri
                 ELSE /\ pollPc' = "wait"
                      /\ UNCHANGED <<pollResult, returnedUri>>
  /\ queries' = queries + 1
  /\ UNCHANGED <<maxWaitSec, delay, waited>>

\* getFileJson throws (fetch rejects, a non-OK status, a non-JSON body)
PollQueryThrows ==
  /\ pollPc = "query"
  /\ pollPc' = "done"
  /\ pollResult' = "query_error"
  /\ reported' = [state |-> "none", uri |-> "none"]
  /\ queries' = queries + 1
  /\ UNCHANGED <<maxWaitSec, delay, waited, returnedUri>>

\* a wait that doubles the delay before sleeping and accumulating it
PollWait_DoublesFirst ==
  /\ pollPc = "wait"
  /\ waited' = waited + NextDelay(delay)
  /\ IF TimedOut(waited + NextDelay(delay), maxWaitSec)
       THEN /\ pollPc' = "done"
            /\ pollResult' = "timeout"
            /\ UNCHANGED delay
       ELSE /\ pollPc' = "query"
            /\ delay' = NextDelay(delay)
            /\ UNCHANGED pollResult
  /\ UNCHANGED <<maxWaitSec, returnedUri, reported, queries>>

\* lines 149-156: the timer fires; waited += delay; timeout or the next delay
PollWait ==
  /\ pollPc = "wait"
  /\ waited' = waited + delay
  /\ IF TimedOut(waited + delay, maxWaitSec)
       THEN /\ pollPc' = "done"
            /\ pollResult' = "timeout"
            /\ UNCHANGED delay
       ELSE /\ pollPc' = "query"
            /\ delay' = NextDelay(delay)
            /\ UNCHANGED pollResult
  /\ UNCHANGED <<maxWaitSec, returnedUri, reported, queries>>

coreVars == <<storeVars, svVars, pipeVars, histVars, uiVars, obsVars>>

appVars == <<coreVars, sideVars>>

\* ------------------------------------------- the primary (Gemini) pipeline
\* the body of the upload response: the file object, flat or under `file`
UploadJson(nested, hasName) ==
  LET name == IF hasName THEN "files/abc" ELSE "undefined"
  IN IF nested
       THEN [hasFile |-> TRUE, file |-> [name |-> name], name |-> "undefined"]
       ELSE [hasFile |-> FALSE, file |-> [name |-> "undefined"], name |-> name]

UploadResponses ==
  [fileExists : BOOLEAN, fetchOk : BOOLEAN, httpOk : BOOLEAN, bodyJson : BOOLEAN,
   nested : BOOLEAN, hasName : BOOLEAN]

\* uploadVideoToGemini throws: no file, fetch rejects, !response.ok, or
\* response.json() rejects
UploadThrows(resp) ==
  \/ ~resp.fileExists
  \/ ~resp.fetchOk
  \/ ~resp.httpOk
  \/ ~resp.bodyJson

\* uploadVideoToGemini, lines 203-208: uploaded = upJson.file || upJson;
\* return uploaded.name
uploadVideoToGemini(resp) ==
  LET upJson == UploadJson(resp.nested, resp.hasName)
      uploaded == IF upJson.hasFile THEN upJson.file ELSE [name |-> upJson.name]
  IN uploaded.name

Categories ==
  {"voice_sound", "word_choice", "sentence_structure", "conversational_style",
   "nonverbal", "overall_impression"}

\* the sub-scores of GeminiAnalysisResult.scores (overall_score apart)
Fields(c) ==
  CASE c = "voice_sound" ->
         {"pitch_tone", "volume", "tempo_pace", "clarity_articulation",
          "pausing_hesitation", "prosody"}
    [] c = "word_choice" ->
         {"formality", "complexity", "repetition", "directness", "emotional_tone"}
    [] c = "sentence_structure" ->
         {"sentence_length", "narrative_style", "use_of_questions",
          "metaphors_analogies"}
    [] c = "conversational_style" ->
         {"turn_taking", "responsiveness", "politeness", "assertiveness",
          "humor_playfulness"}
    [] c = "nonverbal" -> {"laughter", "gestures", "facial_expressions"}
    [] c = "overall_impression" -> {"warmth", "authority", "charisma"}

\* the terms of the fallback sum, in the order of lines 901-926
SummedScores ==
  << <<"voice_sound", "pitch_tone">>, <<"voice_sound", "volume">>,
     <<"voice_sound", "tempo_pace">>, <<"voice_sound", "clarity_articulation">>,
     <<"voice_sound", "pausing_hesitation">>, <<"voice_sound", "prosody">>,
     <<"word_choice", "formality">>, <<"word_choice", "complexity">>,
     <<"word_choice", "repetition">>, <<"word_choice", "directness">>,
     <<"word_choice", "emotional_tone">>,
     <<"sentence_structure", "sentence_length">>,
     <<"sentence_structure", "narrative_style">>,
     <<"sentence_structure", "use_of_questions">>,
     <<"sentence_structure", "metaphors_analogies">>,
     <<"conversational_style", "turn_taking">>,
     <<"conversational_style", "responsiveness">>,
     <<"conversational_style", "politeness">>,
     <<"conversational_style", "assertiveness">>,
     <<"conversational_style", "humor_playfulness">>,
     <<"nonverbal", "laughter">>, <<"nonverbal", "gestures">>,
     <<"nonverbal", "facial_expressions">>,
     <<"overall_impression", "warmth">>, <<"overall_impression", "authority">>,
     <<"overall_impression", "charisma">> >>

\* line 927: ) / 25
FallbackDivisor == 25

\* a parsed generation result.  cats: the categories present under scores;
\* a sub-score is <<n>>, or <<>> when the key is absent; overall_score is
\* <<tenths>> or <<>>; disfluencies: the key is present
MakeResult(v, p, w, missingCats, os, dis) ==
  [cats |-> Categories \ missingCats,
   scores |-> [c \in Categories |->
                 [f \in Fields(c) |-> IF <<c, f>> = p THEN w ELSE <<v>>]],
   overall_score |-> os,
   disfluencies |-> dis]

BaseScores == {8, 10}
OptScores == {<<>>, <<0>>, <<8>>, <<11>>}
Perturbed ==
  {<<"voice_sound", "volume">>, <<"word_choice", "formality">>,
   <<"sentence_structure", "sentence_length">>,
   <<"conversational_style", "politeness">>, <<"nonverbal", "gestures">>,
   <<"overall_impression", "warmth">>}
MissingCats == {{}} \cup {{c} : c \in Categories}
OverallScores == {<<>>, <<0>>, <<75>>}

\* the video_id the remote put in its JSON ("undefined": none)
RemoteVideoIds == {"rec_2", "undefined"}

\* recordingId values the wrapper is called with
RecordingIdArgs == {"rec_1", "rec_2"}

\* a result with its video_id set
WithVideoId(r, vid) ==
  [cats |-> r.cats, scores |-> r.scores, overall_score |-> r.overall_score,
   disfluencies |-> r.disfluencies, video_id |-> vid]

GenResults ==
  {MakeResult(v, p, w, mc, os, dis) :
     v \in BaseScores, p \in Perturbed, w \in OptScores, mc \in MissingCats,
     os \in OverallScores, dis \in BOOLEAN}

\* the generation response: fetch settles, response.ok, response.json()
\* resolves, and the first text part found: none, not JSON, or JSON
GenResponses ==
  {[fetchOk |-> FALSE, httpOk |-> TRUE, bodyJson |-> TRUE, text |-> "none", result |-> <<>>],
   [fetchOk |-> TRUE, httpOk |-> FALSE, bodyJson |-> TRUE, text |-> "none", result |-> <<>>],
   [fetchOk |-> TRUE, httpOk |-> TRUE, bodyJson |-> FALSE, text |-> "none", result |-> <<>>],
   [fetchOk |-> TRUE, httpOk |-> TRUE, bodyJson |-> TRUE, text |-> "none", result |-> <<>>],
   [fetchOk |-> TRUE, httpOk |-> TRUE, bodyJson |-> TRUE, text |-> "notjson", result |-> <<>>]}
  \cup
  {[fetchOk |-> TRUE, httpOk |-> TRUE, bodyJson |-> TRUE, text |-> "json",
    result |-> <<WithVideoId(r, vid)>>] :
     r \in GenResults, vid \in RemoteVideoIds}

\* analyzeVideoWithGemini (inner), lines 807-849: throws on a rejected fetch,
\* !response.ok, an unreadable body, no text part, or JSON.parse failing
GenerateThrows(resp) ==
  \/ ~resp.fetchOk
  \/ ~resp.httpOk
  \/ ~resp.bodyJson
  \/ resp.text = "none"
  \/ resp.text = "notjson"

\* the fallback is evaluated: overall_score absent or falsy (0)
UsesFallback(r) == r.overall_score = <<>> \/ r.overall_score = <<0>>

\* a property of an absent category is read (TypeError): line 899 reads
\* overall_impression, the fallback sum reads all six, lines 938-959 and
\* 969-976 read voice_sound, overall_impression, sentence_structure and
\* word_choice; line 931 reads disfluencies.filler_words
ConvertThrows(r) ==
  \/ "overall_impression" \notin r.cats
  \/ UsesFallback(r) /\ r.cats # Categories
  \/ ~r.disfluencies
  \/ "voice_sound" \notin r.cats
  \/ "sentence_structure" \notin r.cats
  \/ "word_choice" \notin r.cats

RECURSIVE SumFrom(_, _)
SumFrom(r, i) ==
  IF i > Len(SummedScores) THEN 0
  ELSE r.scores[SummedScores[i][1]][SummedScores[i][2]][1] + SumFrom(r, i + 1)

\* an absent sub-score makes the sum NaN
SumIsNaN(r) ==
  \E i \in DOMAIN SummedScores :
    r.scores[SummedScores[i][1]][SummedScores[i][2]] = <<>>

\* Math.round(x * 10) / 10 for x = n / d >= 0, in tenths
RoundTenths(n, d) == (2 * 10 * n + d) \div (2 * d)

\* convertGeminiToSpeechAnalysis: overall_score (tenths, or NaN) and the
\* gemini_analysis it carries
convertGeminiToSpeechAnalysis(r) ==
  [gemini_analysis |-> r,
   overall_nan |-> UsesFallback(r) /\ SumIsNaN(r),
   overall_score |->
     IF ~UsesFallback(r) THEN r.overall_score[1]
     ELSE IF SumIsNaN(r) THEN 0
     ELSE RoundTenths(SumFrom(r, 1), FallbackDivisor)]

\* analyzeVideoWithGemini(videoUri, recordingId, mode) is called;
\* analyzeVideoWithGeminiAPI checks the API key and calls uploadVideoToGemini
GStart ==
  /\ gPc = "idle"
  /\ \E recordingId \in RecordingIdArgs : gRecordingId' = recordingId
  /\ \E keyOk \in BOOLEAN :
       IF keyOk
         THEN /\ gPc' = "upload"
              /\ UNCHANGED <<gOutcome, gError>>
         ELSE /\ gPc' = "done"
              /\ gOutcome' = "error"
              /\ gError' = "config"
  /\ UNCHANGED <<uploadResp, fileName, genRequests, genResp, geminiResult,
                 speechAnalysis, coreVars, pollVars, seqVars, auxVars>>

\* uploadVideoToGemini settles; on a return pollUntilActive(fileName) starts
UploadResponds ==
  /\ gPc = "upload"
  /\ \E resp \in UploadResponses :
       /\ uploadResp' = <<resp>>
       /\ IF UploadThrows(resp)
            THEN /\ gPc' = "done"
                 /\ gOutcome' = "error"
                 /\ gError' = "upload"
                 /\ UNCHANGED <<fileName, pollVars>>
            ELSE /\ gPc' = "poll"
                 /\ fileName' = uploadVideoToGemini(resp)
                 /\ PollStart(DefaultMaxWaitSec)
                 /\ UNCHANGED <<gOutcome, gError>>
  /\ UNCHANGED <<genRequests, genResp, geminiResult, speechAnalysis, coreVars, seqVars, gRecordingId, auxVars>>

\* a pipeline that goes on to the generation however pollUntilActive ended
AfterPoll_IgnoresFailure ==
  /\ IF pollPc' = "done"
       THEN /\ gPc' = "generate"
            /\ genRequests' = genRequests + 1
            /\ UNCHANGED <<gOutcome, gError>>
       ELSE UNCHANGED <<gPc, gOutcome, gError, genRequests>>
  /\ UNCHANGED <<uploadResp, fileName, genResp, geminiResult, speechAnalysis,
                 coreVars, seqVars, gRecordingId, auxVars>>

\* what analyzeVideoWithGeminiAPI does with the step pollUntilActive took:
\* on a return the generation request is sent, on a throw the run ends
AfterPoll ==
  /\ IF pollResult' = "returned"
       THEN /\ gPc' = "generate"
            /\ genRequests' = genRequests + 1
            /\ UNCHANGED <<gOutcome, gError>>
       ELSE IF pollPc' = "done"
         THEN /\ gPc' = "done"
              /\ gOutcome' = "error"
              /\ gError' = "poll"
              /\ UNCHANGED genRequests
         ELSE UNCHANGED <<gPc, gOutcome, gError, genRequests>>
  /\ UNCHANGED <<uploadResp, fileName, genResp, geminiResult, speechAnalysis,
                 coreVars, seqVars, gRecordingId, auxVars>>

GPollQuery == gPc = "poll" /\ PollQuery /\ AfterPoll

GPollQueryThrows == gPc = "poll" /\ PollQueryThrows /\ AfterPoll

GPollWait == gPc = "poll" /\ PollWait /\ AfterPoll

\* a handler that returns the parsed result with the video_id the remote gave
GenerateResponds_KeepsVideoId ==
  /\ gPc = "generate"
  /\ \E resp \in GenResponses :
       /\ genResp' = <<resp>>
       /\ IF GenerateThrows(resp)
            THEN /\ gPc' = "done"
                 /\ gOutcome' = "error"
                 /\ gError' = "generate"
                 /\ UNCHANGED geminiResult
            ELSE /\ gPc' = "convert"
                 /\ geminiResult' = resp.result
                 /\ UNCHANGED <<gOutcome, gError>>
  /\ UNCHANGED <<uploadResp, fileName, genRequests, speechAnalysis, coreVars,
                 pollVars, seqVars, gRecordingId, auxVars>>

\* a handler that puts a default result in place of a missing or unparsable text
GenerateResponds_DefaultOnParseFailure ==
  /\ gPc = "generate"
  /\ \E resp \in GenResponses :
       /\ genResp' = <<resp>>
       /\ IF ~resp.fetchOk \/ ~resp.httpOk \/ ~resp.bodyJson
            THEN /\ gPc' = "done"
                 /\ gOutcome' = "error"
                 /\ gError' = "generate"
                 /\ UNCHANGED geminiResult
            ELSE /\ gPc' = "convert"
                 /\ geminiResult' =
                      IF resp.text = "json"
                        THEN <<WithVideoId(resp.result[1], gRecordingId)>>
                        ELSE <<WithVideoId(MakeResult(8, <<"voice_sound", "volume">>, <<8>>,
                                                      {}, <<>>, TRUE), gRecordingId)>>
                 /\ UNCHANGED <<gOutcome, gError>>
  /\ UNCHANGED <<uploadResp, fileName, genRequests, speechAnalysis, coreVars,
                 pollVars, seqVars, gRecordingId, auxVars>>

\* a handler that sends the generation request once more after a failure
GenerateResponds_Retries ==
  /\ gPc = "generate"
  /\ \E resp \in GenResponses :
       /\ genResp' = <<resp>>
       /\ IF GenerateThrows(resp)
            THEN IF genRequests < 2
                   THEN /\ genRequests' = genRequests + 1
                        /\ UNCHANGED <<gPc, gOutcome, gError, geminiResult>>
                   ELSE /\ gPc' = "done"
                        /\ gOutcome' = "error"
                        /\ gError' = "generate"
                        /\ UNCHANGED <<geminiResult, genRequests>>
            ELSE /\ gPc' = "convert"
                 /\ geminiResult' = <<WithVideoId(resp.result[1], gRecordingId)>>
                 /\ UNCHANGED <<gOutcome, gError, genRequests>>
  /\ UNCHANGED <<uploadResp, fileName, speechAnalysis, coreVars, pollVars, seqVars, gRecordingId, auxVars>>

\* the generation response arrives (lines 807-849); a parsed result goes on
\* to convertGeminiToSpeechAnalysis
GenerateResponds ==
  /\ gPc = "generate"
  /\ \E resp \in GenResponses :
       /\ genResp' = <<resp>>
       /\ IF GenerateThrows(resp)
            THEN /\ gPc' = "done"
                 /\ gOutcome' = "error"
                 /\ gError' = "generate"
                 /\ UNCHANGED geminiResult
            ELSE /\ gPc' = "convert"
                 /\ geminiResult' = <<WithVideoId(resp.result[1], gRecordingId)>>
                 /\ UNCHANGED <<gOutcome, gError>>
  /\ UNCHANGED <<uploadResp, fileName, genRequests, speechAnalysis, coreVars,
                 pollVars, seqVars, gRecordingId, auxVars>>

\* the wrapper converts and returns, or rethrows what the conversion threw
Convert ==
  /\ gPc = "convert"
  /\ gPc' = "done"
  /\ IF ConvertThrows(geminiResult[1])
       THEN /\ gOutcome' = "error"
            /\ gError' = "convert"
            /\ UNCHANGED speechAnalysis
       ELSE /\ gOutcome' = "result"
            /\ speechAnalysis' = <<convertGeminiToSpeechAnalysis(geminiResult[1])>>
            /\ UNCHANGED gError
  /\ UNCHANGED <<uploadResp, fileName, genRequests, genResp, geminiResult,
                 coreVars, pollVars, seqVars, gRecordingId, auxVars>>

NextGemini ==
  \/ GStart
  \/ UploadResponds
  \/ GPollQuery
  \/ GPollQueryThrows
  \/ GPollWait
  \/ GenerateResponds
  \/ Convert


NextPoll ==
  \/ \E m \in (1..MaxWaitBound) \cup {DefaultMaxWaitSec} : PollStart(m) /\ UNCHANGED appVars
  \/ PollQuery /\ UNCHANGED appVars
  \/ PollQueryThrows /\ UNCHANGED appVars
  \/ PollWait /\ UNCHANGED appVars

\* ------------------------------------ store calls made one after another
\* Each call is awaited before the next one is made: its getItem and its
\* setItem are one step.  getItem may reject (getRecordingMetadata then
\* returns []), setItem may reject (nothing is written).
StoreIds == 1..MaxStoreIds

\* the last two calls, newest last
Remember(call) ==
  IF lastCall = <<>> THEN <<call>> ELSE <<lastCall[Len(lastCall)], call>>

SeqCall(call, updatedRecordings) ==
  /\ nCalls < MaxCalls
  /\ nCalls' = nCalls + 1
  /\ lastCall' = Remember(call)
  /\ storage' = IF call.writeOk THEN updatedRecordings ELSE storage
  /\ UNCHANGED <<faults, svVars, pipeVars, histVars, uiVars, obsVars, pollVars,
                 gemVars, auxVars>>

\* saveRecordingMetadata: its catch logs the error and returns
SeqSave(id) ==
  /\ Len(storage) < MaxStored
  /\ \E readOk \in BOOLEAN, writeOk \in BOOLEAN :
       SeqCall([op |-> "save", id |-> id, status |-> "not_requested", mode |-> "none",
                readOk |-> readOk, writeOk |-> writeOk, threw |-> FALSE],
               saveRecordingMetadata(getRecordingMetadata(readOk), NewMetadata(id)))

\* an updateRecordingAnalysisStatus whose catch throws the error again
SeqSetStatus_Rethrows(id, status, mode) ==
  \E readOk \in BOOLEAN, writeOk \in BOOLEAN :
    SeqCall([op |-> "setStatus", id |-> id, status |-> status, mode |-> mode,
             readOk |-> readOk, writeOk |-> writeOk, threw |-> ~writeOk],
            updateRecordingAnalysisStatus(getRecordingMetadata(readOk), id, status, mode))

\* updateRecordingAnalysisStatus: its catch logs the error and returns
SeqSetStatus(id, status, mode) ==
  \E readOk \in BOOLEAN, writeOk \in BOOLEAN :
    SeqCall([op |-> "setStatus", id |-> id, status |-> status, mode |-> mode,
             readOk |-> readOk, writeOk |-> writeOk, threw |-> FALSE],
            updateRecordingAnalysisStatus(getRecordingMetadata(readOk), id, status, mode))

\* saveAnalysisToRecording: its catch logs the error and throws it again
SeqSaveAnalysis(id) ==
  \E readOk \in BOOLEAN, writeOk \in BOOLEAN :
    SeqCall([op |-> "saveResult", id |-> id, status |-> "completed", mode |-> "none",
             readOk |-> readOk, writeOk |-> writeOk, threw |-> ~writeOk],
            saveAnalysisToRecording(getRecordingMetadata(readOk), id, "gemini"))

\* updateRecordingObservations: its catch logs the error and returns
SeqObservations(id) ==
  \E readOk \in BOOLEAN, writeOk \in BOOLEAN :
    SeqCall([op |-> "observations", id |-> id, status |-> "none", mode |-> "none",
             readOk |-> readOk, writeOk |-> writeOk, threw |-> FALSE],
            updateRecordingObservations(getRecordingMetadata(readOk), id, "notes"))

\* deleteRecordingMetadata: its catch logs the error and returns
SeqDelete(id) ==
  \E readOk \in BOOLEAN, writeOk \in BOOLEAN :
    SeqCall([op |-> "delete", id |-> id, status |-> "none", mode |-> "none",
             readOk |-> readOk, writeOk |-> writeOk, threw |-> FALSE],
            deleteRecordingMetadata(getRecordingMetadata(readOk), id))

NextStoreSeq ==
  \/ \E id \in StoreIds : SeqSave(id)
  \/ \E id \in StoreIds : SeqSetStatus(id, "pending", "general")
  \/ \E id \in StoreIds : SeqSetStatus(id, "failed", "none")
  \/ \E id \in StoreIds : SeqSaveAnalysis(id)
  \/ \E id \in StoreIds : SeqObservations(id)
  \/ \E id \in StoreIds : SeqDelete(id)

\* ------------------------------------------- uploadVideoForAnalysis
Modes == {"general", "interview", "sales", "pitch"}

BackendStatuses == {200, 201, 301, 400, 404, 429, 500, 503}

\* how the fetch settles: aborted by the timeout, rejected with the
\* TypeError of a network failure, rejected otherwise, or a response
BackendResponses ==
  {[fetch |-> f, status |-> 200, bodyJson |-> TRUE, hasAnalysis |-> FALSE,
    resultMode |-> "undefined"] : f \in {"abort", "network", "rejected"}}
  \cup
  [fetch : {"response"}, status : BackendStatuses, bodyJson : BOOLEAN,
   hasAnalysis : BOOLEAN, resultMode : Modes \cup {"undefined"}]

\* createApiError(message, status, code)
createApiError(status, code) ==
  [threw |-> TRUE, name |-> "Error", network |-> FALSE, status |-> <<status>>,
   code |-> code, mode |-> "none"]

\* an error that is not an ApiError: no status, no code
PlainError(name, network) ==
  [threw |-> TRUE, name |-> name, network |-> network, status |-> <<>>,
   code |-> "undefined", mode |-> "none"]

\* what the try block throws or returns (lines 1679-1736)
BackendTry(resp, mode) ==
  IF resp.fetch = "abort" THEN PlainError("AbortError", FALSE)
  ELSE IF resp.fetch = "network" THEN PlainError("TypeError", TRUE)
  ELSE IF resp.fetch = "rejected" THEN PlainError("Error", FALSE)
  ELSE IF ~(resp.status >= 200 /\ resp.status <= 299)
    THEN IF resp.status = 429 THEN createApiError(429, "RATE_LIMIT")
         ELSE IF resp.status >= 500 THEN createApiError(resp.status, "SERVER_ERROR")
         ELSE createApiError(resp.status, "API_ERROR")
  ELSE IF ~resp.bodyJson THEN PlainError("SyntaxError", FALSE)
  ELSE IF ~resp.hasAnalysis THEN createApiError(502, "INVALID_RESPONSE")
  ELSE [threw |-> FALSE, name |-> "none", network |-> FALSE, status |-> <<>>,
        code |-> "none",
        mode |-> IF resp.resultMode # "undefined" THEN resp.resultMode ELSE mode]

\* a catch block that wraps whatever was thrown
BackendCatch_WrapsAll(error) ==
  IF error.name = "AbortError" THEN createApiError(408, "TIMEOUT")
  ELSE IF error.name = "TypeError" /\ error.network
    THEN createApiError(0, "NETWORK_ERROR")
  ELSE createApiError(500, "UNKNOWN_ERROR")

\* the catch block (lines 1738-1759)
BackendCatch(error) ==
  IF error.name = "AbortError" THEN createApiError(408, "TIMEOUT")
  ELSE IF error.name = "TypeError" /\ error.network
    THEN createApiError(0, "NETWORK_ERROR")
  ELSE IF error.status # <<>> THEN error
  ELSE createApiError(500, "UNKNOWN_ERROR")

uploadVideoForAnalysis(resp, mode) ==
  IF BackendTry(resp, mode).threw THEN BackendCatch(BackendTry(resp, mode))
  ELSE BackendTry(resp, mode)

\* uploadVideoForAnalysis(videoUri, mode) is called: the request is sent
BackendSend ==
  /\ bPc = "idle"
  /\ \E mode \in Modes : bMode' = mode
  /\ bPc' = "sent"
  /\ UNCHANGED <<bResp, bOut, coreVars, pollVars, gemVars, seqVars, vapiVars>>

\* the fetch settles and the function returns or throws
BackendSettles ==
  /\ bPc = "sent"
  /\ \E resp \in BackendResponses :
       /\ bResp' = <<resp>>
       /\ bOut' = <<uploadVideoForAnalysis(resp, bMode)>>
  /\ bPc' = "done"
  /\ UNCHANGED <<bMode, coreVars, pollVars, gemVars, seqVars, vapiVars>>

NextBackend ==
  \/ BackendSend
  \/ BackendSettles

\* ------------------------------------------------------ VapiService
MaxSessions == 4

\* "none" stands for a start without an exercise (startCoachingWithAnalysis)
Exercises == {"none", "ex_1", "ex_2"}

isSessionActive == currentSession # <<>>

\* startCoachingSession, up to the await of vapi.start: throws when Vapi was
\* never initialised, else records the session and starts the call
startCoachingSession ==
  /\ vPc = "idle"
  /\ sessions < MaxSessions
  /\ \E exerciseId \in Exercises :
       IF ~vapi
         THEN /\ lastOp' = "start_threw"
              /\ UNCHANGED <<currentSession, vPc, sessions, vArg>>
         ELSE /\ currentSession' = <<[id |-> sessions + 1, exerciseId |-> "none",
                                      ended |-> FALSE]>>
              /\ sessions' = sessions + 1
              /\ vArg' = exerciseId
              /\ vPc' = "starting"
              /\ UNCHANGED lastOp
  /\ UNCHANGED <<vapi, callLive, coreVars, pollVars, gemVars, seqVars, backVars>>

\* vapi.start settles: the session is returned (startExerciseSession then
\* adds the exercise to it), or the catch throws a new error
VapiStartSettles ==
  /\ vPc = "starting"
  /\ \E ok \in BOOLEAN :
       IF ok
         THEN /\ callLive' = TRUE
              /\ currentSession' =
                   IF vArg # "none"
                     THEN <<[currentSession[1] EXCEPT !.exerciseId = vArg]>>
                     ELSE currentSession
              /\ lastOp' = "start_returned"
         ELSE /\ lastOp' = "start_threw"
              /\ UNCHANGED <<currentSession, callLive>>
  /\ vPc' = "idle"
  /\ vArg' = "none"
  /\ UNCHANGED <<vapi, sessions, coreVars, pollVars, gemVars, seqVars, backVars>>

\* endCoachingSession, up to the await of vapi.stop
endCoachingSession ==
  /\ vPc = "idle"
  /\ IF ~vapi \/ currentSession = <<>>
       THEN /\ lastOp' = "end_null"
            /\ UNCHANGED vPc
       ELSE /\ vPc' = "stopping"
            /\ UNCHANGED lastOp
  /\ UNCHANGED <<vapi, currentSession, callLive, sessions, vArg, coreVars,
                 pollVars, gemVars, seqVars, backVars>>

\* vapi.stop settles: an exercise session goes on to save its summary, any
\* other is cleared; the catch clears the session too
VapiStopSettles ==
  /\ vPc = "stopping"
  /\ \E ok \in BOOLEAN :
       IF ok
         THEN /\ callLive' = FALSE
              /\ IF currentSession[1].exerciseId # "none"
                   THEN /\ currentSession' =
                             <<[currentSession[1] EXCEPT !.ended = TRUE]>>
                        /\ vPc' = "saving"
                        /\ UNCHANGED lastOp
                   ELSE /\ currentSession' = <<>>
                        /\ vPc' = "idle"
                        /\ lastOp' = "end_null"
         ELSE /\ currentSession' = <<>>
              /\ vPc' = "idle"
              /\ lastOp' = "end_null"
              /\ UNCHANGED callLive
  /\ UNCHANGED <<vapi, sessions, vArg, coreVars, pollVars, gemVars, seqVars,
                 backVars>>

\* exerciseSessionStorage.saveSession settles: the summary is returned, or
\* the catch returns null; the session is cleared either way
SaveSessionSettles ==
  /\ vPc = "saving"
  /\ \E ok \in BOOLEAN :
       lastOp' = IF ok THEN "end_summary" ELSE "end_null"
  /\ currentSession' = <<>>
  /\ vPc' = "idle"
  /\ UNCHANGED <<vapi, callLive, sessions, vArg, coreVars, pollVars, gemVars,
                 seqVars, backVars>>

NextVapi ==
  \/ startCoachingSession
  \/ VapiStartSettles
  \/ endCoachingSession
  \/ VapiStopSettles
  \/ SaveSessionSettles

vars == <<storage, faults, svPc, svSnap, pc, snap, tried, failedPaths, result,
          retries, stale, staleWrite, mounted, screenRec, loadPc, loadSeen,
          analysisStatus, recording, refreshIntervalRef, closure, refreshQ,
          obsPc, obsSnap, obsNav, saveThrew, observedTerminal, pollPc, maxWaitSec,
          delay, waited, pollResult, returnedUri, reported, queries,
          gPc, uploadResp, fileName, genRequests, genResp, geminiResult,
          gOutcome, gError, speechAnalysis, gRecordingId, lastCall, nCalls,
          bPc, bMode, bResp, bOut, vapi, currentSession, vPc, callLive, lastOp,
          sessions, vArg>>

InitApp ==
  /\ storage = <<>>
  /\ faults = 0
  /\ svPc = "idle"
  /\ svSnap = NoSnap
  /\ pc = [r \in Ids |-> "none"]
  /\ snap = [r \in Ids |-> NoSnap]
  /\ tried = [r \in Ids |-> <<>>]
  /\ failedPaths = [r \in Ids |-> {}]
  /\ result = [r \in Ids |-> "none"]
  /\ retries = 0
  /\ stale = [u \in Tasks |-> FALSE]
  /\ staleWrite = FALSE
  /\ mounted = FALSE
  /\ screenRec = 0
  /\ loadPc = "none"
  /\ loadSeen = NoSnap
  /\ analysisStatus = "pending"
  /\ recording = <<>>
  /\ refreshIntervalRef = 0
  /\ closure = [analysisStatus |-> "pending", recordingAi |-> FALSE]
  /\ refreshQ = <<>>
  /\ obsPc = "idle"
  /\ obsSnap = NoSnap
  /\ obsNav = "none"
  /\ saveThrew = [r \in Ids |-> FALSE]
  /\ observedTerminal = FALSE
  /\ pollPc = "idle"
  /\ maxWaitSec = 0
  /\ delay = 0
  /\ waited = 0
  /\ pollResult = "none"
  /\ returnedUri = "none"
  /\ reported = [state |-> "none", uri |-> "none"]
  /\ queries = 0
  /\ gPc = "idle"
  /\ uploadResp = <<>>
  /\ fileName = "none"
  /\ genRequests = 0
  /\ genResp = <<>>
  /\ geminiResult = <<>>
  /\ gOutcome = "none"
  /\ gError = "none"
  /\ speechAnalysis = <<>>
  /\ gRecordingId = "none"
  /\ lastCall = <<>>
  /\ nCalls = 0
  /\ bPc = "idle"
  /\ bMode = "none"
  /\ bResp = <<>>
  /\ bOut = <<>>
  /\ currentSession = <<>>
  /\ vPc = "idle"
  /\ callLive = FALSE
  /\ lastOp = "none"
  /\ sessions = 0
  /\ vArg = "none"

Next ==
  \/ \E r \in Ids : SaveVideoRead(r)
  \/ \E r \in Ids : SaveVideoWrite(r)
  \/ \E r \in Ids : PendRead(r)
  \/ \E r \in Ids : PendWrite(r)
  \/ \E r \in Ids : GeminiUpload(r)
  \/ \E r \in Ids : GeminiPoll(r)
  \/ \E r \in Ids : GeminiGenerate(r)
  \/ \E r \in Ids : Backend(r)
  \/ \E r \in Ids : mockAnalyzeSpeechVideo(r)
  \/ \E r \in Ids : SaveRead(r)
  \/ \E r \in Ids : SaveWrite(r)
  \/ \E r \in Ids : FailRead(r)
  \/ \E r \in Ids : FailWrite(r)
  \/ \E r \in Ids : TryAgain(r)
  \/ \E r \in Ids : SkipAnalysis(r)
  \/ clearAllRecordingMetadata
  \/ LoadRead
  \/ LoadApply
  \/ Tick
  \/ RefreshRead
  \/ RefreshApply
  \/ Unmount
  \/ HandleCompleteRead
  \/ HandleCompleteWrite

\* the public key is configured
Init == InitApp /\ vapi = TRUE

\* the voice coach alone, with and without a configured public key
VapiInit == InitApp /\ vapi \in BOOLEAN

Spec == Init /\ [][Next]_vars

\* one run of the primary pipeline alone
GeminiSpec == Init /\ [][NextGemini]_vars

\* the store functions called one after another
StoreSeqSpec == Init /\ [][NextStoreSeq]_vars

VapiSpec == VapiInit /\ [][NextVapi]_vars

\* one call of the secondary backend alone
BackendSpec == Init /\ [][NextBackend]_vars

\* the poller alone
PollSpec == Init /\ [][NextPoll]_vars

\* ... with its fetches settling and its timers firing
PollLive ==
  /\ PollSpec
  /\ WF_vars((PollQuery \/ PollQueryThrows) /\ UNCHANGED appVars)
  /\ WF_vars(PollWait /\ UNCHANGED appVars)

\* ------------------------------------------------------------------ claims
StatusOf(r) == StatusIn(storage, r)

AllPaths == {"gemini", "backend", "mock"}

\* requestAIAnalysis(r) has returned
Returned(r) == pc[r] \in {"done", "skipped"}

\* the snapshot task t would write from
TaskSnap(t) ==
  IF t = SvTask THEN svSnap ELSE IF t = ObsTask THEN obsSnap ELSE snap[t]

\* C1: every recording of the persisted collection has analysisStatus
\* 'completed' if and only if an aiAnalysis is attached to it.
C1_CompletedIffResult ==
  \A i \in DOMAIN storage :
    (storage[i].analysisStatus = "completed") <=> (storage[i].aiAnalysis # "none")

\* a retry after a failed attempt saved its result
C1_Witness ==
  \E r \in Ids :
    /\ pc[r] = "done" /\ retries > 0
    /\ InStore(r)
    /\ Stored(r).analysisStatus = "completed"
    /\ Stored(r).aiAnalysis = result[r]

\* C2 (as claimed): once requestAIAnalysis has returned for a stored
\* recording, its alert (if any) is dismissed and no store call is in flight
\* any more, its persisted status is 'completed' or 'failed', never 'pending'.
C2_ReturnedImpliesTerminal ==
  \A r \in Ids :
    (Returned(r) /\ InStore(r) /\ \A t \in Tasks : ~Holding(t))
      => StatusOf(r) \in Terminal

C4_FailedOnlyIfAllPathsFailed ==
  [][\A r \in Ids :
       (StatusIn(storage', r) = "failed" /\ StatusOf(r) # "failed")
         => failedPaths[r] = AllPaths]_vars

\* C4 (amended): the pipeline reaches its 'failed' write only after
\* saveAnalysisToRecording threw in that attempt, holding the result of a path
\* that did not throw (the mock never throws); a stored status turns 'failed'
\* only by that write or by another task writing back an older snapshot.
C4_FailedOnlyAfterSaveThrew ==
  [][\A r \in Ids :
       /\ pc'[r] \in {"fail_read", "fail_write", "alert"} =>
            /\ saveThrew'[r]
            /\ result'[r] \in AllPaths \ failedPaths'[r]
            /\ "mock" \notin failedPaths'[r]
       /\ (StatusIn(storage', r) = "failed" /\ StatusOf(r) # "failed") =>
            \/ pc[r] = "fail_write" /\ pc'[r] = "alert" /\ saveThrew[r]
            \/ \E t \in Tasks \ {r} :
                 Holding(t) /\ ~Holding(t)' /\ StatusIn(TaskSnap(t), r) = "failed"]_vars

\* the save threw after Gemini returned, and 'failed' was written
C4_Witness ==
  \E r \in Ids :
    /\ pc[r] = "alert" /\ saveThrew[r]
    /\ result[r] = "gemini" /\ failedPaths[r] = {}
    /\ StatusOf(r) = "failed"

\* C5 (as claimed): a stored status changes only along not_requested ->
\* pending, pending -> completed, pending -> failed and failed -> pending;
\* 'completed' is never left.
C5_StatusTransitions ==
  [][\A r \in Ids :
       (StatusOf(r) # "missing" /\ StatusIn(storage', r) # "missing"
          /\ StatusIn(storage', r) # StatusOf(r))
         => <<StatusOf(r), StatusIn(storage', r)>> \in
              { <<"not_requested", "pending">>, <<"pending", "completed">>,
                <<"pending", "failed">>, <<"failed", "pending">> }]_vars

\* C6: when saveAnalysisToRecording has returned for r and the stored entry of
\* r is not 'completed' with a result, some task has written the whole
\* collection back from a snapshot read before another task's write.
C6_LostOnlyByStaleWrite ==
  \A r \in Ids :
    (pc[r] = "done" /\ InStore(r)
       /\ ~(Stored(r).analysisStatus = "completed" /\ Stored(r).aiAnalysis # "none"))
      => staleWrite

\* saveResult returned, no storage call ever rejected, and the stored
\* recording is pending again without a result
C6_Witness ==
  \E r \in Ids :
    /\ pc[r] = "done" /\ faults = 0
    /\ InStore(r)
    /\ Stored(r).analysisStatus = "pending"
    /\ Stored(r).aiAnalysis = "none"

\* C7 (as claimed), in the form a finite run refutes: when the mounted
\* screen has no interval and no read in flight (it will never read again)
\* and the persisted status of its recording is terminal, the screen shows it.
C7_ScreenShowsTerminal ==
  (/\ mounted /\ loadPc = "done" /\ refreshQ = <<>> /\ refreshIntervalRef = 0
   /\ faults = 0
   /\ StatusOf(screenRec) \in Terminal)
    => analysisStatus = StatusOf(screenRec)

\* C8: a live interval has the period 2000 ms; once a refresh of the mounted
\* screen has seen 'completed' or 'failed' there is no interval; once the
\* screen is unmounted there is no interval; a refresh starts only from a
\* live interval of a mounted screen.
C8_PollingStops ==
  [][/\ refreshIntervalRef' \in {0, PollIntervalMs}
     /\ observedTerminal' => refreshIntervalRef' = 0
     /\ ~mounted' => refreshIntervalRef' = 0
     /\ Len(refreshQ') > Len(refreshQ) =>
          (mounted /\ refreshIntervalRef = PollIntervalMs /\ ~observedTerminal)]_vars

\* a refresh saw a terminal status while mounted and the interval is gone
C8_Witness ==
  /\ mounted /\ observedTerminal
  /\ analysisStatus \in Terminal
  /\ refreshIntervalRef = 0

\* C9: pollUntilActive returns exactly when the last state query reported
\* ACTIVE, and then returns that response's uri; it fails with the processing
\* error exactly when the last query reported FAILED; after any other reported
\* state it is waiting, querying again, or has timed out.
C9_TerminalStates ==
  /\ (pollResult = "returned") <=> (reported.state = "ACTIVE")
  /\ pollResult = "returned" => (pollPc = "done" /\ returnedUri = reported.uri)
  /\ (pollResult = "processing_failed") <=> (reported.state = "FAILED")
  /\ pollPc = "wait" => reported.state \in RemoteStates \ {"ACTIVE", "FAILED"}
  /\ reported.state \in RemoteStates \ {"ACTIVE", "FAILED"} =>
       (pollPc \in {"wait", "query"} \/ pollResult = "timeout")

\* an unknown state and a missing state were waited out, then ACTIVE returned
C9_Witness ==
  /\ pollResult = "returned"
  /\ returnedUri = "https://x/abc"
  /\ queries >= 3

\* C10: a timeout is raised only with waited >= maxWaitSec; no state query is
\* made once waited has reached maxWaitSec, so at most maxWaitSec/2 queries
\* are made; a run whose last report was neither ACTIVE nor FAILED ends in
\* the timeout; every run ends.
C10_Timeout ==
  /\ [](pollResult = "timeout" => (pollPc = "done" /\ waited >= maxWaitSec))
  /\ [](pollPc = "query" => waited < maxWaitSec)
  /\ [](queries >= 1 => InitialDelaySec * (queries - 1) < maxWaitSec)
  /\ []((pollPc = "done" /\ reported.state \in RemoteStates \ {"ACTIVE", "FAILED"})
          => pollResult = "timeout")
  /\ (pollPc \in {"query", "wait"}) ~> (pollPc = "done")

\* a timeout that overshoots maxWaitSec after several queries
C10_Witness ==
  /\ pollResult = "timeout"
  /\ waited > maxWaitSec
  /\ queries >= 3

\* the delay schedule as stated: min(2 * 2^(n-1), 10) before the n-th re-check
Schedule(n) == IF 2 * 2^(n - 1) < 10 THEN 2 * 2^(n - 1) ELSE 10

RECURSIVE SumSchedule(_)
SumSchedule(k) == IF k <= 0 THEN 0 ELSE Schedule(k) + SumSchedule(k - 1)

\* C11: the wait that follows the n-th state query is Schedule(n) seconds
\* (2, 4, 8, 10, 10, ...); the delay starts at 2, never exceeds 10 and never
\* decreases; a state query is made only at the start (the first) or right
\* after exactly one such wait.
C11_DelaySchedule ==
  [][/\ (pollPc = "wait" /\ pollPc' # "wait") =>
          (queries >= 1 /\ waited' - waited = Schedule(queries))
     /\ pollPc = "wait" => delay = Schedule(queries)
     /\ (pollPc # "idle" /\ pollPc' # "idle") => (delay' >= delay /\ delay' <= 10)
     /\ (pollPc = "idle" /\ pollPc' # "idle") => delay' = 2
     /\ queries' # queries => (pollPc = "query" /\ queries' = queries + 1)
     /\ (pollPc # "query" /\ pollPc' = "query") =>
          \/ pollPc = "idle" /\ queries = 0
          \/ pollPc = "wait" /\ waited' = waited + Schedule(queries)
    ]_vars

\* the fifth wait has been served: 2 + 4 + 8 + 10 + 10 seconds
C11_Witness ==
  /\ pollPc = "query"
  /\ queries = 5
  /\ delay = 10
  /\ waited = 34

\* C12: when pollUntilActive has returned on its k-th state query, the
\* accumulated wait is exactly the sum of the first k-1 delays, that sum is
\* below maxWaitSec, and nothing is waited after ACTIVE was observed.
C12_WaitBeforeSuccess ==
  pollResult = "returned" =>
    /\ waited = SumSchedule(queries - 1)
    /\ waited < maxWaitSec
    /\ pollPc = "done"
    /\ ~ENABLED PollWait

\* PROCESSING, PROCESSING, ACTIVE: returned after 2 + 4 = 6 seconds
C12_Witness ==
  /\ pollResult = "returned"
  /\ queries = 3
  /\ waited = 6
  /\ maxWaitSec = 7

C14_AcceptedScoresValid ==
  gOutcome = "result" =>
    LET r == speechAnalysis[1].gemini_analysis
    IN /\ r.cats = Categories
       /\ \A c \in Categories : \A f \in Fields(c) :
            /\ r.scores[c][f] # <<>>
            /\ r.scores[c][f][1] \in 1..10

\* all six categories present, every sub-score present and in 1..10
ValidScores(r) ==
  /\ r.cats = Categories
  /\ \A c \in Categories : \A f \in Fields(c) :
       /\ r.scores[c][f] # <<>>
       /\ r.scores[c][f][1] \in 1..10

\* the sub-scores a result carries
SubScores == UNION {{<<c, f>> : f \in Fields(c)} : c \in Categories}

\* C15 (as claimed): when overall_score is missing from an otherwise valid
\* result, the converted overall_score is the arithmetic mean of the result's
\* sub-scores rounded to one decimal place (8.0 when every sub-score is 8).
C15_BackfilledMean ==
  (gOutcome = "result"
     /\ speechAnalysis[1].gemini_analysis.overall_score = <<>>
     /\ ValidScores(speechAnalysis[1].gemini_analysis))
    => /\ ~speechAnalysis[1].overall_nan
       /\ speechAnalysis[1].overall_score =
            RoundTenths(SumFrom(speechAnalysis[1].gemini_analysis, 1),
                        Cardinality(SubScores))

\* C16: when the generation response has no text part, or a text that is
\* not valid JSON, the run has ended with an error: no result was parsed,
\* none was put in its place, and the wrapper returned nothing.
C16_ParseFailureFails ==
  (genResp # <<>> /\ genResp[1].text \in {"none", "notjson"}) =>
    /\ gPc = "done"
    /\ gOutcome = "error"
    /\ gError = "generate"
    /\ geminiResult = <<>>
    /\ speechAnalysis = <<>>

\* an OK response whose text is not JSON ended the run
C16_Witness ==
  /\ genResp # <<>>
  /\ genResp[1].fetchOk /\ genResp[1].httpOk /\ genResp[1].bodyJson
  /\ genResp[1].text = "notjson"
  /\ gOutcome = "error"

\* C17: one run sends at most one generation request, and exactly one once
\* the analyzer has been entered, whatever the response was.
C17_OneGenerationRequest ==
  /\ genRequests <= 1
  /\ (gPc \in {"generate", "convert"} \/ genResp # <<>> \/ gError \in {"generate", "convert"}
        \/ gOutcome = "result") => genRequests = 1

\* a failed HTTP response ended the run after the one request
C17_Witness ==
  /\ genResp # <<>>
  /\ ~genResp[1].httpOk
  /\ gPc = "done"
  /\ gError = "generate"
  /\ genRequests = 1

\* C18 (as claimed): when the upload response has a non-success status or a
\* body that carries no handle name, uploadVideoToGemini has thrown and no
\* readiness polling has started; a name it returned is the name carried by
\* a success response.
C18_UploadFailsWithoutHandle ==
  uploadResp # <<>> =>
    /\ (~uploadResp[1].httpOk \/ ~uploadResp[1].bodyJson \/ ~uploadResp[1].hasName)
         => (gError = "upload" /\ fileName = "none" /\ pollPc = "idle" /\ queries = 0)
    /\ fileName # "none"
         => (uploadResp[1].httpOk /\ uploadResp[1].hasName /\ fileName = "files/abc")

\* entries of a collection with the given id
EntriesOf(recordings, id) == {i \in DOMAIN recordings : recordings[i].id = id}

C20_RetryOrSkip ==
  \A r \in Ids :
    /\ (pc[r] = "skipped" /\ InStore(r)) => StatusOf(r) = "failed"
    /\ (retries > 0 /\ Returned(r) /\ InStore(r) /\ \A t \in Tasks : ~Holding(t))
         => StatusOf(r) \in Terminal

\* C21: the result analyzeVideoWithGeminiAPI returns, and the analysis the
\* wrapper builds from it, carry the recordingId the caller passed as
\* video_id, whatever video_id the generation response held.
C21_VideoIdIsRecordingId ==
  /\ geminiResult # <<>> => geminiResult[1].video_id = gRecordingId
  /\ gOutcome = "result" => speechAnalysis[1].gemini_analysis.video_id = gRecordingId

\* the remote answered with another recording's id, and a result came out
C21_Witness ==
  /\ gOutcome = "result"
  /\ gRecordingId = "rec_1"
  /\ genResp[1].result[1].video_id = "rec_2"

\* C22: uploadVideoForAnalysis throws RATE_LIMIT (429) for a 429 response,
\* SERVER_ERROR with the response's status for a status of 500 or more,
\* API_ERROR with the response's status for any other non-OK status,
\* INVALID_RESPONSE for an OK body without analysis, TIMEOUT (408) for an
\* aborted request; every error it throws has a status and a code.
C22_BackendErrorMapping ==
  bOut # <<>> =>
    LET o == bOut[1]
        r == bResp[1]
        isResp == r.fetch = "response"
        ok == r.status >= 200 /\ r.status <= 299
    IN /\ (isResp /\ r.status = 429) =>
            (o.threw /\ o.code = "RATE_LIMIT" /\ o.status = <<429>>)
       /\ (isResp /\ r.status >= 500) =>
            (o.threw /\ o.code = "SERVER_ERROR" /\ o.status = <<r.status>>)
       /\ (isResp /\ ~ok /\ r.status # 429 /\ r.status < 500) =>
            (o.threw /\ o.code = "API_ERROR" /\ o.status = <<r.status>>)
       /\ (isResp /\ ok /\ r.bodyJson /\ ~r.hasAnalysis) =>
            (o.threw /\ o.code = "INVALID_RESPONSE")
       /\ r.fetch = "abort" => (o.threw /\ o.code = "TIMEOUT" /\ o.status = <<408>>)
       /\ o.threw => (o.status # <<>> /\ o.code # "undefined")
       /\ ~o.threw => (isResp /\ ok /\ r.bodyJson /\ r.hasAnalysis)

\* a 503 answer came back as SERVER_ERROR carrying 503
C22_Witness ==
  /\ bOut # <<>>
  /\ bResp[1].fetch = "response"
  /\ bResp[1].status = 503
  /\ bOut[1].code = "SERVER_ERROR"
  /\ bOut[1].status = <<503>>

\* C30: isSessionActive() is true exactly while a call started by
\* startCoachingSession is live: between calls it is true only with a live
\* call, false after a start that failed, and false after every
\* endCoachingSession, whether vapi.stop succeeded or threw.
C30_ActiveIffCallLive ==
  vPc = "idle" =>
    /\ isSessionActive => callLive
    /\ lastOp = "start_threw" => ~isSessionActive
    /\ lastOp \in {"end_null", "end_summary"} => ~isSessionActive

\* C23: requestAIAnalysis has persisted 'pending' before the upload stage
\* begins: when the first network request of an attempt is about to be
\* issued, the stored status of the recording is 'pending'.
C23_PendingBeforeUpload ==
  \A r \in Ids : (pc[r] = "g_upload" /\ InStore(r)) => StatusOf(r) = "pending"

C26_OtherRecordingsKept ==
  [][nCalls' = nCalls + 1
     => \A i \in DOMAIN storage :
          storage[i].id # lastCall'[Len(lastCall')].id =>
            \E j \in DOMAIN storage' : storage'[j] = storage[i]
    ]_vars

\* C28: when the write of a store update fails the collection is left as it
\* was, and the call throws only if it is saveAnalysisToRecording: the other
\* four return normally; no call throws when its write succeeds.
C28_OnlySaveAnalysisReports ==
  [][nCalls' = nCalls + 1
     => LET call == lastCall'[Len(lastCall')]
        IN /\ ~call.writeOk => storage' = storage
           /\ call.threw <=> (~call.writeOk /\ call.op = "saveResult")
    ]_vars

\* the write of 'pending' for a stored recording failed: the call returned
\* normally and the recording is still not_requested
C28_Witness ==
  /\ lastCall # <<>>
  /\ lastCall[Len(lastCall)].op = "setStatus"
  /\ lastCall[Len(lastCall)].status = "pending"
  /\ lastCall[Len(lastCall)].readOk
  /\ ~lastCall[Len(lastCall)].writeOk
  /\ ~lastCall[Len(lastCall)].threw
  /\ StatusIn(storage, lastCall[Len(lastCall)].id) = "not_requested"

\* C25: polling is stopped only by a refresh that sees 'completed' or
\* 'failed', or by unmounting: whenever the screen is mounted, its initial
\* load has finished and the persisted status of its recording is
\* 'pending', the refresh interval is live.
C25_PollingWhilePending ==
  (/\ mounted /\ loadPc = "done"
   /\ StatusOf(screenRec) = "pending")
    => refreshIntervalRef = PollIntervalMs

\* C27: a recording removed while its analysis is in flight stays removed:
\* once requestAIAnalysis has started for a recording, no write puts the
\* recording into a collection that does not hold it.
C27_RemovedStaysRemoved ==
  [][\A r \in Ids :
       (pc[r] # "creating" /\ ~InStore(r)) => FindIndex(storage', r) = 0]_vars

\* C29: convertGeminiToSpeechAnalysis returns an overall_score between 1 and
\* 10 (10 to 100 tenths) whenever every sub-score of the result is an
\* integer in 1..10 and its overall_score is absent or in that range, the
\* fallback mean included.
C29_OverallScoreInRange ==
  (/\ gOutcome = "result"
   /\ ValidScores(speechAnalysis[1].gemini_analysis)
   /\ \/ speechAnalysis[1].gemini_analysis.overall_score = <<>>
      \/ speechAnalysis[1].gemini_analysis.overall_score[1] \in 10..100)
    => /\ ~speechAnalysis[1].overall_nan
       /\ speechAnalysis[1].overall_score \in 10..100

====
